---------------------------- MODULE Spec2Model ----------------------------
(***************************************************************************)
(* Three 4x4x4 tic-tac-toe programs of the repository, as one state         *)
(* machine whose variable prog says which program a behaviour runs:        *)
(*   "atari"  AtariTicTacToe3D  (src/atari_3d_tictactoe.py, Tk GUI)        *)
(*   "ttt3d"  TTT3D             (src/ttt3d_4x4x4.py, Tk GUI)               *)
(*   "cli"    TicTacToe3D       (src/tictactoe_3d.py, console play_game)   *)
(* The board is the list of lists of lists of the source: board[layer][row] *)
(* [col] is the integer the program stores for that cell.                  *)
(***************************************************************************)
EXTENDS Integers, Sequences, FiniteSets, TLC

(***************************************************************************)
(* Program constants.                                                      *)
(***************************************************************************)
BOARD_SIZE == 4
\* float('inf') / math.inf: larger than every score the searches produce.
Inf == 1000000
\* The score minimax and look_ahead return for a line completed in the search.
WinScore == 1000
\* TicTacToe3D.get_score for a board X has won.
CliWinScore == 10
\* The empty-cell count from which TicTacToe3D.ai_move moves at random.
RandomThreshold == 60
\* TTT3D.computer_plays starts best_score at -10000 and calls look_ahead
\* with the window (-10000, 10000).
TttWindow == 10000

Range(n) == 0 .. (n - 1)
Cells == Range(BOARD_SIZE) \X Range(BOARD_SIZE) \X Range(BOARD_SIZE)

\* for layer in range(4): for row in range(4): for col in range(4)
LoopCells ==
  LET ColSeq(l, r) == [k \in 1..BOARD_SIZE |-> <<l, r, k - 1>>]
      RowSeq(l) == ColSeq(l, 0) \o ColSeq(l, 1) \o ColSeq(l, 2) \o ColSeq(l, 3)
  IN RowSeq(0) \o RowSeq(1) \o RowSeq(2) \o RowSeq(3)

NumCells == BOARD_SIZE * BOARD_SIZE * BOARD_SIZE

(***************************************************************************)
(* The line catalog: six families, appended in the order of the source.    *)
(***************************************************************************)
\* a list that repeats its first element
ListOfFirst(n, f) == [k \in 1..n |-> f[0]]

\* [f(i) for i in range(n)]
ListOf(n, f) == [k \in 1..n |-> f[k - 1]]
\* nested loops of which the outer one stays at its first value
NestFirstOnly(n, f) == [k \in 1..(n * n) |-> f[0, (k - 1) % n]]

\* for a in range(n): for b in range(n): append(f(a, b))
Nest(n, f) == [k \in 1..(n * n) |-> f[(k - 1) \div n, (k - 1) % n]]
\* a pair of families of which the first is appended twice
PairsFirstTwice(n, f, g) == [k \in 1..(2 * n) |-> f[(k - 1) \div 2]]

\* a pair of families of which only the first is appended
PairsFirstOnly(n, f, g) == [k \in 1..n |-> f[k - 1]]

\* for a in range(n): append(f(a)); append(g(a))
Pairs(n, f, g) ==
  [k \in 1..(2 * n) |-> IF k % 2 = 1 THEN f[(k - 1) \div 2] ELSE g[(k - 1) \div 2]]

\* The six families; cell[layer, row, col] is what the source appends for a
\* cell: the tuple itself, or coord_to_index of it.
GenerateLines(n, cell) ==
  LET R == Range(n)
      rows  == Nest(n, [layer \in R, row \in R |-> ListOf(n, [col \in R |-> cell[layer, row, col]])])
      cols  == Nest(n, [layer \in R, col \in R |-> ListOf(n, [row \in R |-> cell[layer, row, col]])])
      diags == Pairs(n, [layer \in R |-> ListOf(n, [i \in R |-> cell[layer, i, i]])],
                        [layer \in R |-> ListOf(n, [i \in R |-> cell[layer, i, n - 1 - i]])])
      vert  == Nest(n, [row \in R, col \in R |-> ListOf(n, [layer \in R |-> cell[layer, row, col]])])
      fb    == Pairs(n, [col \in R |-> ListOf(n, [i \in R |-> cell[i, i, col]])],
                        [col \in R |-> ListOf(n, [i \in R |-> cell[i, n - 1 - i, col]])])
      lr    == Pairs(n, [row \in R |-> ListOf(n, [i \in R |-> cell[i, row, i]])],
                        [row \in R |-> ListOf(n, [i \in R |-> cell[i, row, n - 1 - i]])])
      space == << ListOf(n, [i \in R |-> cell[i, i, i]]),
                  ListOf(n, [i \in R |-> cell[i, i, n - 1 - i]]),
                  ListOf(n, [i \in R |-> cell[i, n - 1 - i, i]]),
                  ListOf(n, [i \in R |-> cell[i, n - 1 - i, n - 1 - i]]) >>
  IN rows \o cols \o diags \o vert \o fb \o lr \o space

\* the cell as the tuple (layer, row, col)
Coord == [layer \in Range(BOARD_SIZE), row \in Range(BOARD_SIZE), col \in Range(BOARD_SIZE) |->
            <<layer, row, col>>]

\* AtariTicTacToe3D.winning_combinations
winning_combinations == GenerateLines(BOARD_SIZE, Coord)

\* TicTacToe3D.get_all_winning_lines()
get_all_winning_lines == GenerateLines(BOARD_SIZE, Coord)

\* an index that counts the columns before the rows
coord_to_index_by_column(layer, row, col) == layer * 16 + col * 4 + row

coord_to_index(layer, row, col) == layer * 16 + row * 4 + col

\* TTT3D.disable_board: layer = idx // 16; remainder = idx % 16;
\* row = remainder // 4; col = remainder % 4
index_to_coord(idx) == <<idx \div 16, (idx % 16) \div 4, (idx % 16) % 4>>

\* TTT3D.winning_combinations: the lines as flat indices
ttt_winning_combinations ==
  GenerateLines(BOARD_SIZE, [layer \in Range(BOARD_SIZE), row \in Range(BOARD_SIZE),
                             col \in Range(BOARD_SIZE) |-> coord_to_index(layer, row, col)])

NumLines == Len(winning_combinations)

Max(a, b) == IF a >= b THEN a ELSE b
Min(a, b) == IF a <= b THEN a ELSE b

\* the record note with the fields of the record extra added to it
Merge(note, extra) ==
  [f \in DOMAIN note \cup DOMAIN extra |->
     IF f \in DOMAIN extra THEN extra[f] ELSE note[f]]

\* the least element of a non-empty set of integers, 0 for the empty set
FirstOf(S) == IF S = {} THEN 0 ELSE CHOOSE k \in S : \A j \in S : k <= j

\* board[layer][row][col] for the cell c = (layer, row, col)
At(b, c) == b[c[1]][c[2]][c[3]]
\* board[layer][row][col] = v
Put(b, c, v) == [b EXCEPT ![c[1]][c[2]][c[3]] = v]
\* a board with the same value everywhere
Filled(v) == [l \in Range(BOARD_SIZE) |-> [r \in Range(BOARD_SIZE) |->
                [c \in Range(BOARD_SIZE) |-> v]]]

\* the number of cells of the board b that hold a piece
Occupied(b, empty) == Cardinality({c \in Cells : At(b, c) # empty})

\* a recursive call that passes its caller's depth on
SameDepth(depth) == depth

\* the depth minimax and alpha_beta_minimax pass to their recursive calls:
\* depth - 1
Deeper(depth) == depth - 1

\* a win test that asks for one cell of a line instead of all four
FirstFullLineAnyCell(lines, b, v) ==
  FirstOf({k \in 1..Len(lines) : \E i \in 1..Len(lines[k]) : At(b, lines[k][i]) = v})

\* for combo in lines: if all(board[l][r][c] == v for l, r, c in combo): the
\* index of the first such combo, or 0 when the loop ends without one
FirstFullLine(lines, b, v) ==
  FirstOf({k \in 1..Len(lines) : \A i \in 1..Len(lines[k]) : At(b, lines[k][i]) = v})

RECURSIVE SumOver(_, _, _)
\* terms[lo] + ... + terms[hi], the accumulation of a for loop
SumOver(terms, lo, hi) ==
  IF lo > hi THEN 0
  ELSE IF lo = hi THEN terms[lo]
  ELSE LET mid == (lo + hi) \div 2
       IN SumOver(terms, lo, mid) + SumOver(terms, mid + 1, hi)

(***************************************************************************)
(* AtariTicTacToe3D: win test, evaluation and search.  The search works on *)
(* the object's fields in place; st is the object, of which it touches     *)
(* board and winning_cells.                                                *)
(***************************************************************************)
\* 0 if piece == 'X' else 1
piece_value(piece) == IF piece = "X" THEN 0 ELSE 1

OtherPiece(piece) == IF piece = "X" THEN "O" ELSE "X"

check_win(st, player_value, move) ==
  LET original == At(st.board, move)
      placed   == Put(st.board, move, player_value)
      k        == FirstFullLine(winning_combinations, placed, player_value)
  IN IF k # 0
     THEN [won |-> TRUE,
           st  |-> [st EXCEPT !.winning_cells = winning_combinations[k],
                              !.board = IF original # player_value
                                        THEN Put(placed, move, original)
                                        ELSE placed]]
     ELSE [won |-> FALSE,
           st  |-> [st EXCEPT !.board = Put(placed, move, original)]]

is_board_full(b) == \A i \in 1..NumCells : At(b, LoopCells[i]) # -1

\* an evaluation that weighs every line a hundred times as much
evaluate_board_hundredfold(b, computer_value) ==
  LET human_value == 1 - computer_value
      terms == [k \in 1..NumLines |->
        LET combo == winning_combinations[k]
            computer_count == Cardinality({i \in 1..BOARD_SIZE : At(b, combo[i]) = computer_value})
            human_count == Cardinality({i \in 1..BOARD_SIZE : At(b, combo[i]) = human_value})
        IN IF computer_count > 0 /\ human_count = 0
           THEN 100 * computer_count * computer_count
           ELSE IF human_count > 0 /\ computer_count = 0
                THEN 0 - 100 * human_count * human_count
                ELSE 0]
  IN SumOver(terms, 1, NumLines)

evaluate_board(b, computer_value) ==
  LET human_value == 1 - computer_value
      terms == [k \in 1..NumLines |->
        LET combo == winning_combinations[k]
            computer_count == Cardinality({i \in 1..BOARD_SIZE : At(b, combo[i]) = computer_value})
            human_count == Cardinality({i \in 1..BOARD_SIZE : At(b, combo[i]) = human_value})
        IN IF computer_count > 0 /\ human_count = 0
           THEN computer_count * computer_count
           ELSE IF human_count > 0 /\ computer_count = 0
                THEN 0 - human_count * human_count
                ELSE 0]
  IN SumOver(terms, 1, NumLines)

\* a pruning test that is always taken
AtariCutoffAlways(alpha, beta) == TRUE

\* a search that forgets to take its speculative move back
AtariUndoSkipped(st, c) == st

\* the pruning test of minimax: if beta <= alpha: return
AtariCutoff(alpha, beta) == beta <= alpha

\* the undo of a speculative move in minimax: self.board[layer][row][col] = -1
AtariUndo(st, c) == [st EXCEPT !.board = Put(@, c, -1)]

RECURSIVE MinimaxP(_, _, _, _, _, _, _)
RECURSIVE MinimaxLoop(_, _, _, _, _, _, _)

\* what minimax returns when its loops have ended in the loop state out, st
\* being the object at entry
MinimaxReturn(st, out) ==
  [score |-> out.best, st |-> out.st, cut |-> out.cut,
   restored |-> out.restored /\ out.st.board = st.board, peak |-> out.peak]

\* minimax; prune = FALSE is the same search with the pruning test removed.
\* The result is [score, st, cut, restored, peak]: restored says that this call
\* and every call below it returned with the board it was entered with, cut
\* that one of them returned by the pruning test, peak is the largest number
\* of pieces the board held at once during the call.
MinimaxP(prune, st, depth, alpha, beta, is_maximizing, computer_value) ==
  IF depth = 0 \/ is_board_full(st.board)
  THEN [score |-> evaluate_board(st.board, computer_value), st |-> st,
        cut |-> FALSE, restored |-> TRUE, peak |-> Occupied(st.board, -1)]
  ELSE MinimaxReturn(st,
         MinimaxLoop(prune,
                     [st |-> st, alpha |-> alpha, beta |-> beta,
                      best |-> IF is_maximizing THEN 0 - Inf ELSE Inf,
                      done |-> FALSE, cut |-> FALSE, restored |-> TRUE,
                      peak |-> Occupied(st.board, -1)],
                     depth, is_maximizing, computer_value, 1, NumCells))

\* the body of the loops of minimax after the recursive call returned r for
\* the cell c: max_score / min_score, alpha / beta, the undo, the pruning test
MinimaxStep(prune, L, c, is_maximizing, r) ==
  LET nb == IF is_maximizing THEN Max(L.best, r.score) ELSE Min(L.best, r.score)
      na == IF is_maximizing THEN Max(L.alpha, r.score) ELSE L.alpha
      nt == IF is_maximizing THEN L.beta ELSE Min(L.beta, r.score)
  IN [st |-> AtariUndo(r.st, c), alpha |-> na, beta |-> nt, best |-> nb,
      done |-> prune /\ AtariCutoff(na, nt),
      cut |-> L.cut \/ r.cut \/ (prune /\ AtariCutoff(na, nt)),
      restored |-> L.restored /\ r.restored, peak |-> Max(L.peak, r.peak)]

\* the three for loops of minimax over the cells LoopCells[lo..hi].  The loop
\* state L is [st, alpha, beta, best, done, cut, restored, peak]: best is
\* max_score / min_score and then the value returned, done says the loop was
\* left by a return.
MinimaxLoop(prune, L, depth, is_maximizing, computer_value, lo, hi) ==
  IF L.done \/ lo > hi THEN L
  ELSE IF lo < hi
  THEN LET mid == (lo + hi) \div 2
       IN MinimaxLoop(prune,
                      MinimaxLoop(prune, L, depth, is_maximizing, computer_value, lo, mid),
                      depth, is_maximizing, computer_value, mid + 1, hi)
  ELSE
    LET c == LoopCells[lo]
        v == IF is_maximizing THEN computer_value ELSE 1 - computer_value
    IN
    IF At(L.st.board, c) # -1 THEN L
    ELSE
      LET w == check_win([L.st EXCEPT !.board = Put(@, c, v)], v, c) IN
      IF w.won
      THEN [L EXCEPT !.st = AtariUndo(w.st, c), !.done = TRUE,
                     !.best = IF is_maximizing THEN WinScore ELSE 0 - WinScore,
                     !.peak = Max(@, Occupied(w.st.board, -1))]
      ELSE MinimaxStep(prune, L, c, is_maximizing,
                       MinimaxP(prune, w.st, Deeper(depth), L.alpha, L.beta,
                                ~is_maximizing, computer_value))

minimax(st, depth, alpha, beta, is_maximizing, computer_value) ==
  MinimaxP(TRUE, st, depth, alpha, beta, is_maximizing, computer_value)

(***************************************************************************)
(* TTT3D: win test, heuristic and look-ahead.  The search works on the     *)
(* object's fields in place; st is the object: it reads human_piece,       *)
(* computer_piece and total_looks_ahead and touches config, final_win and  *)
(* look_ahead_counter.                                                     *)
(***************************************************************************)
\* 0 if self.human_piece == 'X' else 1
ttt_human_value(human_piece) == IF human_piece = "X" THEN 0 ELSE 1
\* 1 if self.computer_piece == 'X' else 0
ttt_computer_value(computer_piece) == IF computer_piece = "X" THEN 1 ELSE 0

\* game_board = [0] * 64, filled by the three loops with index += 1, which
\* reach the cell LoopCells[p + 1] at index p: game_board[p], for the set hits
\* of the values whose cells are marked 1
GameBoard(config, hits, p) == IF At(config, LoopCells[p + 1]) \in hits THEN 1 ELSE 0

ttt_check_win(st, player_value, move) ==
  LET original   == At(st.config, move)
      placed     == Put(st.config, move, player_value)
      game_board(p) == GameBoard(placed, {player_value}, p)
      k          == FirstOf({j \in 1..Len(ttt_winning_combinations) :
                       \A i \in 1..Len(ttt_winning_combinations[j]) :
                         game_board(ttt_winning_combinations[j][i]) = 1})
  IN IF k # 0
     THEN [won |-> TRUE,
           st  |-> [st EXCEPT !.final_win = ttt_winning_combinations[k],
                              !.config = IF original # player_value
                                         THEN Put(placed, move, original)
                                         ELSE placed]]
     ELSE [won |-> FALSE,
           st  |-> [st EXCEPT !.config = Put(placed, move, original)]]

\* a count of the lines the player has filled, instead of the lines open
check_available_filled(config, player_value) ==
  LET game_board(p) == GameBoard(config, {player_value}, p)
  IN Cardinality({k \in 1..Len(ttt_winning_combinations) :
                    \A i \in 1..BOARD_SIZE : game_board(ttt_winning_combinations[k][i]) = 1})

check_available(config, player_value) ==
  LET game_board(p) == GameBoard(config, {player_value, -1}, p)
  IN Cardinality({k \in 1..Len(ttt_winning_combinations) :
                    \A i \in 1..BOARD_SIZE : game_board(ttt_winning_combinations[k][i]) = 1})

\* computer_lines - human_lines.  check_available reads the board and changes
\* nothing: called twice with the same integer it returns the same count
\* twice, and the difference is 0.
heuristic(st) ==
  LET computer_value == ttt_computer_value(st.computer_piece)
      human_value == ttt_human_value(st.human_piece)
  IN IF human_value = computer_value THEN 0
     ELSE check_available(st.config, computer_value)
          - check_available(st.config, human_value)

\* the undo of look_ahead and computer_plays: self.config[layer][row][col] = -1
TttUndo(st, c) == [st EXCEPT !.config = Put(@, c, -1)]

RECURSIVE look_ahead(_, _, _, _)
RECURSIVE LookAheadLoop(_, _, _, _)

\* what look_ahead returns when its loops have ended in the loop state out,
\* st being the object at entry
LookAheadReturn(st, player_value, out) ==
  [value |-> IF out.done THEN out.value
             ELSE IF player_value = ttt_computer_value(st.computer_piece)
                  THEN out.alpha ELSE out.beta,
   st |-> out.st,
   restored |-> out.restored /\ out.st.config = st.config,
   nodes |-> out.nodes]

\* a call of look_ahead as seen from the call it is made under: one ply deeper
Below(nodes) == {[n EXCEPT !.ply = @ + 1] : n \in nodes}

\* the call of look_ahead entered with the object st: its ply below the call
\* the record is kept for, the pieces on the board and look_ahead_counter at
\* its entry
NodeAt(st) ==
  [ply |-> 0, pieces |-> Occupied(st.config, -1), counter |-> st.look_ahead_counter]

\* look_ahead.  The result is [value, st, restored, nodes]: restored says that
\* this call and every call below it returned with the board it was entered
\* with, nodes are this call and the calls below it.
look_ahead(st, player_value, alpha, beta) ==
  IF st.look_ahead_counter >= st.total_looks_ahead
  THEN [value |-> heuristic(st), st |-> st, restored |-> TRUE,
        nodes |-> {NodeAt(st)}]
  ELSE LookAheadReturn(st, player_value,
         LookAheadLoop([st |-> [st EXCEPT !.look_ahead_counter = @ + 1],
                        alpha |-> alpha, beta |-> beta,
                        value |-> 0, done |-> FALSE, restored |-> TRUE,
                        nodes |-> {NodeAt(st)}],
                       player_value, 1, NumCells))

\* the body of the loops of look_ahead after the recursive call returned r
\* for the cell c: alpha / beta, the undo, the pruning test
LookAheadStep(L, c, maximizing, r) ==
  LET na == IF maximizing /\ r.value > L.alpha THEN r.value ELSE L.alpha
      nt == IF ~maximizing /\ r.value < L.beta THEN r.value ELSE L.beta
  IN [st |-> TttUndo(r.st, c), alpha |-> na, beta |-> nt,
      value |-> IF maximizing THEN na ELSE nt,
      done |-> na >= nt,
      restored |-> L.restored /\ r.restored,
      nodes |-> L.nodes \cup Below(r.nodes)]

\* the three for loops of look_ahead over the cells LoopCells[lo..hi].  The
\* loop state L is [st, alpha, beta, value, done, restored, nodes]: done says the
\* loop was left by a return, of value.
LookAheadLoop(L, player_value, lo, hi) ==
  IF L.done \/ lo > hi THEN L
  ELSE IF lo < hi
  THEN LET mid == (lo + hi) \div 2
       IN LookAheadLoop(LookAheadLoop(L, player_value, lo, mid),
                        player_value, mid + 1, hi)
  ELSE
    LET c == LoopCells[lo]
        computer_value == ttt_computer_value(L.st.computer_piece)
        maximizing == (player_value = computer_value)
    IN
    IF At(L.st.config, c) # -1 THEN L
    ELSE
      LET w == ttt_check_win(L.st, IF maximizing THEN computer_value ELSE player_value, c)
      IN
      IF w.won
      THEN [L EXCEPT !.st = TttUndo(w.st, c), !.done = TRUE,
                     !.value = IF maximizing THEN WinScore ELSE 0 - WinScore]
      ELSE LookAheadStep(L, c, maximizing,
                         look_ahead(w.st,
                                    IF maximizing THEN ttt_human_value(L.st.human_piece)
                                                  ELSE computer_value,
                                    L.alpha, L.beta))

(***************************************************************************)
(* TicTacToe3D (console): X = 1 is the human, O = -1 the AI, 0 is empty.   *)
(***************************************************************************)
check_winner(b, player) == FirstFullLine(get_all_winning_lines, b, player) # 0
game_won(b) == check_winner(b, 1) \/ check_winner(b, -1)
get_score(b) ==
  IF check_winner(b, 1) THEN CliWinScore
  ELSE IF check_winner(b, -1) THEN 0 - CliWinScore ELSE 0
get_blanks(b) == SelectSeq(LoopCells, LAMBDA c : At(b, c) = 0)
board_full(b) == Len(get_blanks(b)) = 0

\* a Python list index: a negative index counts from the end
PyIndex(i) == IF i < 0 THEN i + BOARD_SIZE ELSE i
\* self.board[z][y][x] = player
set_move(b, z, y, x, player) ==
  [b EXCEPT ![PyIndex(z)][PyIndex(y)][PyIndex(x)] = player]

\* the pruning test of alpha_beta_minimax: if alpha >= beta: break
CliCutoff(alpha, beta) == alpha >= beta

RECURSIVE AlphaBetaP(_, _, _, _, _, _)
RECURSIVE AlphaBetaLoop(_, _, _, _, _, _, _)

\* what alpha_beta_minimax returns when its loop has ended in the loop state
\* out, b being the board at entry
AlphaBetaReturn(b, player, out) ==
  [pos |-> out.pos, score |-> IF player = 1 THEN out.alpha ELSE out.beta,
   board |-> out.board, cut |-> out.cut,
   restored |-> out.restored /\ out.board = b, peak |-> out.peak,
   tried |-> out.tried]

\* alpha_beta_minimax; prune = FALSE is the same search with the pruning
\* test removed.  The result is [pos, score, board, cut, restored, peak]: cut
\* says that this call or one below it left its loop by the break, peak is
\* the largest number of pieces the board held at once during the call, tried
\* lists the cells of this call's loop with the scores returned for them.
AlphaBetaP(prune, b, depth, alpha, beta, player) ==
  IF depth = 0 \/ game_won(b) \/ board_full(b)
  THEN [pos |-> <<-1, -1, -1>>, score |-> get_score(b), board |-> b,
        cut |-> FALSE, restored |-> TRUE, peak |-> NumCells - Len(get_blanks(b)),
        tried |-> <<>>]
  ELSE AlphaBetaReturn(b, player,
         AlphaBetaLoop(prune,
                       [board |-> b, alpha |-> alpha, beta |-> beta,
                        pos |-> <<-1, -1, -1>>, done |-> FALSE, cut |-> FALSE,
                        restored |-> TRUE, peak |-> NumCells - Len(get_blanks(b)),
                        tried |-> <<>>],
                       depth, player, get_blanks(b), 1, Len(get_blanks(b))))

\* the body of the loop of alpha_beta_minimax after the recursive call
\* returned r for cell: alpha / beta and the position, the undo, the break
AlphaBetaStep(prune, L, cell, player, r) ==
  LET up   == IF player = 1 THEN r.score > L.alpha ELSE r.score < L.beta
      na   == IF player = 1 /\ up THEN r.score ELSE L.alpha
      nt   == IF player # 1 /\ up THEN r.score ELSE L.beta
  IN [board |-> set_move(r.board, cell[1], cell[2], cell[3], 0),
      alpha |-> na, beta |-> nt,
      pos |-> IF up THEN cell ELSE L.pos,
      done |-> prune /\ CliCutoff(na, nt),
      cut |-> L.cut \/ r.cut \/ (prune /\ CliCutoff(na, nt)),
      restored |-> L.restored /\ r.restored, peak |-> Max(L.peak, r.peak),
      tried |-> Append(L.tried, <<cell, r.score>>)]

\* for cell in blanks, over blanks[lo..hi].  The loop state L is
\* [board, alpha, beta, pos, done, cut, restored, peak, tried], pos being (z_pos, y_pos,
\* x_pos) and done the break.
AlphaBetaLoop(prune, L, depth, player, blanks, lo, hi) ==
  IF L.done \/ lo > hi THEN L
  ELSE IF lo < hi
  THEN LET mid == (lo + hi) \div 2
       IN AlphaBetaLoop(prune, AlphaBetaLoop(prune, L, depth, player, blanks, lo, mid),
                        depth, player, blanks, mid + 1, hi)
  ELSE
    AlphaBetaStep(prune, L, blanks[lo], player,
                  AlphaBetaP(prune,
                             set_move(L.board, blanks[lo][1], blanks[lo][2],
                                      blanks[lo][3], player),
                             Deeper(depth), L.alpha, L.beta, 0 - player))

alpha_beta_minimax(b, depth, alpha, beta, player) ==
  AlphaBetaP(TRUE, b, depth, alpha, beta, player)

\* a table that gives every name the depth of 'easy'
difficulty_depths_easy(name) == 2

\* self.difficulty_depths.get(difficulty, 4)
difficulty_depths(name) ==
  IF name = "easy" THEN 2
  ELSE IF name = "insane" THEN 6 ELSE 4

\* an ai_move that plays the first cell of the board, whatever was found
AiMovePlaceFirst(found, max_depth) ==
  [board |-> set_move(found.board, 0, 0, 0, -1), pos |-> <<0, 0, 0>>,
   searched |-> TRUE, restored |-> found.restored, depth |-> max_depth,
   peak |-> found.peak, tried |-> found.tried]

\* the end of ai_move, found being what alpha_beta_minimax returned when
\* called with the depth max_depth:
\* z, y, x = result[0], result[1], result[2]; self.set_move(z, y, x, -1)
AiMovePlace(found, max_depth) ==
  [board |-> set_move(found.board, found.pos[1], found.pos[2], found.pos[3], -1),
   pos |-> found.pos, searched |-> TRUE, restored |-> found.restored,
   depth |-> max_depth, peak |-> found.peak, tried |-> found.tried]

\* a random move that always takes the first of the blanks
AiMoveRandomFirst(b, blanks, pick) ==
  [board |-> set_move(b, blanks[1][1], blanks[1][2], blanks[1][3], -1),
   pos |-> blanks[1], searched |-> FALSE, restored |-> TRUE, depth |-> -1,
   peak |-> NumCells - Len(blanks), tried |-> <<>>]

\* the random move of ai_move, pick being choice(blanks):
\* z, y, x = choice(blanks); self.set_move(z, y, x, -1)
AiMoveRandom(b, blanks, pick) ==
  [board |-> set_move(b, pick[1], pick[2], pick[3], -1), pos |-> pick,
   searched |-> FALSE, restored |-> TRUE, depth |-> -1,
   peak |-> NumCells - Len(blanks), tried |-> <<>>]

\* ai_move; pick is choice(blanks).  The result is [board, pos, searched,
\* restored, depth, peak, tried]: pos is the cell handed to the final set_move, depth
\* the depth alpha_beta_minimax was called with (-1 when it was not called),
\* peak the largest number of pieces the board held before the final
\* set_move, tried the cells the top call of alpha_beta_minimax scored.
ai_move(b, name, pick) ==
  LET blanks == get_blanks(b) IN
  IF Len(blanks) >= RandomThreshold
  THEN AiMoveRandom(b, blanks, pick)
  ELSE
    LET depth == difficulty_depths(name)
        max_depth == Min(depth, Len(blanks))
    IN AiMovePlace(alpha_beta_minimax(b, max_depth, 0 - Inf, Inf, -1), max_depth)

\* player_move with the input (level, row, col) it accepts
player_move(b, cell) == set_move(b, cell[1], cell[2], cell[3], 1)

print_result(b) ==
  IF check_winner(b, 1) THEN "You (X) have won"
  ELSE IF check_winner(b, -1) THEN "AI (O) has won" ELSE "DRAW"

(***************************************************************************)
(* AtariTicTacToe3D: the controller.  o is the object (self).  The result  *)
(* of make_move is [o, after, won]: after counts the computer_turn         *)
(* callbacks it hands to root.after, won is what its win test answered.    *)
(***************************************************************************)
\* self.is_animating: set to False in __init__ and in clear_board, nowhere else
is_animating == FALSE

handle_win(o, human_won) ==
  IF human_won
  THEN [o EXCEPT !.game_over = TRUE, !.human_score = @ + 1, !.status = "YOU WIN!"]
  ELSE [o EXCEPT !.game_over = TRUE, !.computer_score = @ + 1,
                 !.status = "COMPUTER WINS!"]

\* a tie handled as a win of the human
handle_tie_as_win(o) == handle_win(o, TRUE)

handle_tie(o) ==
  [o EXCEPT !.game_over = TRUE, !.tie_score = @ + 1, !.status = "IT'S A TIE!"]

make_move(o, c, is_human) ==
  LET piece == IF is_human THEN o.human_piece ELSE o.computer_piece
      value == piece_value(piece)
      w     == check_win([o EXCEPT !.board = Put(@, c, value)], value, c)
  IN IF w.won
     THEN [o |-> handle_win(w.st, is_human), after |-> 0, won |-> TRUE]
     ELSE IF is_board_full(w.st.board)
     THEN [o |-> handle_tie(w.st), after |-> 0, won |-> FALSE]
     ELSE [o |-> w.st, after |-> IF is_human /\ ~w.st.game_over THEN 1 ELSE 0,
           won |-> FALSE]

\* the list moves of find_best_move before the shuffle: the empty cells
EmptyCells(b) == SelectSeq(LoopCells, LAMBDA c : At(b, c) = -1)

Reverse(s) == [k \in 1..Len(s) |-> s[Len(s) + 1 - k]]

\* random.shuffle(moves): the orders the model draws
Shuffles(moves) == {moves, Reverse(moves)}

\* random.randint(-100, 100), once per move tried: the draws of the model,
\* in which one move scores 100 and the others -100
RandomScores(n) == {[i \in 1..n |-> IF i = k THEN 100 ELSE 0 - 100] : k \in 1..n}

\* the body of the loop of find_best_move after the move c got the score of
\* r: the undo and the comparison with best_score
FindBestStep(L, c, r) ==
  LET better == r.score > L.best_score
  IN [st |-> AtariUndo(r.st, c),
      best_score |-> IF better THEN r.score ELSE L.best_score,
      best_move |-> IF better THEN c ELSE L.best_move,
      done |-> FALSE,
      searched |-> L.searched \/ r.st.difficulty # 1,
      restored |-> L.restored /\ r.restored,
      tried |-> Append(L.tried, <<c, r.score>>),
      depths |-> L.depths \cup r.depths]

RECURSIVE FindBestLoop(_, _, _, _)
\* for layer, row, col in moves, from moves[i] on.  The loop state L is
\* [st, best_score, best_move, done, searched, restored, tried, depths]: done
\* says the loop was left by the return of an immediate win, searched that
\* minimax was called, tried lists the moves scored so far with their scores,
\* depths are the depths minimax was called with; <<>> is None.
FindBestLoop(L, moves, rnd, i) ==
  IF L.done \/ i > Len(moves) THEN L
  ELSE
    LET c == moves[i]
        computer_value == piece_value(L.st.computer_piece)
        w == check_win([L.st EXCEPT !.board = Put(@, c, computer_value)], computer_value, c)
    IN IF w.won
       THEN [L EXCEPT !.st = AtariUndo(w.st, c), !.best_move = c, !.done = TRUE]
       ELSE
         LET depth == IF w.st.difficulty = 2 THEN 2 ELSE w.st.max_depth
         IN FindBestLoop(
              FindBestStep(L, c,
                IF w.st.difficulty = 1
                THEN [score |-> rnd[i], st |-> w.st, restored |-> TRUE, depths |-> {}]
                ELSE Merge(minimax(w.st, depth, 0 - Inf, Inf, FALSE, computer_value),
                           [depths |-> {depth}])),
              moves, rnd, i + 1)

\* what find_best_move returns when its loop has ended in the loop state out,
\* o being the object at entry
FindBestReturn(o, out) ==
  [move |-> out.best_move, st |-> out.st, searched |-> out.searched,
   restored |-> out.restored /\ out.st.board = o.board,
   tried |-> out.tried, early |-> out.done, depths |-> out.depths]

\* a find_best_move that gives up when a single move is left
find_best_move_but_last(o, moves, rnd) ==
  IF Len(moves) <= 1
  THEN [move |-> <<>>, st |-> o, searched |-> FALSE, restored |-> TRUE,
        tried |-> <<>>, early |-> FALSE, depths |-> {}]
  ELSE FindBestReturn(o,
         FindBestLoop([st |-> o, best_score |-> 0 - Inf, best_move |-> <<>>,
                       done |-> FALSE, searched |-> FALSE, restored |-> TRUE,
                       tried |-> <<>>, depths |-> {}],
                      moves, rnd, 1))

\* find_best_move; moves is the shuffled list, rnd the random scores.  The
\* result is [move, st, searched, restored, tried, early, depths]: tried lists
\* the moves that were scored with their scores, in the order of the loop,
\* early says the loop was left by the return of an immediate win, depths are
\* the depths minimax was called with.
find_best_move(o, moves, rnd) ==
  FindBestReturn(o,
    FindBestLoop([st |-> o, best_score |-> 0 - Inf, best_move |-> <<>>,
                  done |-> FALSE, searched |-> FALSE, restored |-> TRUE,
                  tried |-> <<>>, depths |-> {}],
                 moves, rnd, 1))

(***************************************************************************)
(* TTT3D: the controller.  o is the object (self).                         *)
(***************************************************************************)
ttt_clear_board(o) ==
  [o EXCEPT !.win = FALSE, !.look_ahead_counter = 0, !.final_win = <<>>,
            !.config = Filled(-1)]

\* human_move past its guard.  The result is [o, after, won].
ttt_human_move(o, c) ==
  LET value == ttt_human_value(o.human_piece)
      w     == ttt_check_win([o EXCEPT !.config = Put(@, c, value)], value, c)
  IN IF w.won
     THEN [o |-> [w.st EXCEPT !.status = "You beat me!", !.human_score = @ + 1,
                              !.win = TRUE],
           after |-> 0, won |-> TRUE]
     ELSE [o |-> w.st, after |-> 1, won |-> FALSE]

\* the list empty_spaces of computer_play_random
empty_spaces(o) == SelectSeq(LoopCells, LAMBDA c : At(o.config, c) = -1)

\* computer_play_random; pick is random.choice(empty_spaces)
computer_play_random(o, pick) ==
  IF Len(empty_spaces(o)) > 0
  THEN [o EXCEPT !.config = Put(@, pick, IF o.computer_piece = "X" THEN 1 ELSE 0)]
  ELSE o

\* the body of the loops of computer_plays after the move c, made on the
\* object placed, got the score of r: the comparison with best_score, the
\* reset of look_ahead_counter and the undo
ComputerPlaysStep(L, c, placed, r) ==
  LET better == r.value >= L.best_score
  IN [st |-> TttUndo([r.st EXCEPT !.look_ahead_counter = 0], c),
      best_score |-> IF better THEN r.value ELSE L.best_score,
      best_move |-> IF better THEN c ELSE L.best_move,
      done |-> FALSE, cell |-> L.cell,
      restored |-> L.restored /\ r.restored /\ r.st.config = placed.config,
      nodes |-> L.nodes \cup r.nodes,
      tried |-> Append(L.tried, <<c, r.value>>)]

\* the move c of computer_plays that does not win at once, made on the
\* object placed: its score by look_ahead or, at Easy, by heuristic
ComputerPlaysScore(L, c, placed) ==
  ComputerPlaysStep(L, c, placed,
    IF placed.difficulty # 1
    THEN look_ahead(placed, ttt_human_value(placed.human_piece),
                    0 - TttWindow, TttWindow)
    ELSE [value |-> heuristic(placed), st |-> placed, restored |-> TRUE,
          nodes |-> {}])

RECURSIVE ComputerPlaysLoop(_, _, _)
\* the three for loops of computer_plays over the cells LoopCells[lo..hi].
\* The loop state L is [st, best_score, best_move, done, cell, restored,
\* nodes, tried]: done says the loop was left by the return of an immediate
\* win at cell, nodes are the calls of look_ahead made so far, tried lists the
\* moves scored so far with their scores.
ComputerPlaysLoop(L, lo, hi) ==
  IF L.done \/ lo > hi THEN L
  ELSE IF lo < hi
  THEN LET mid == (lo + hi) \div 2
       IN ComputerPlaysLoop(ComputerPlaysLoop(L, lo, mid), mid + 1, hi)
  ELSE
    LET c == LoopCells[lo]
        computer_value == ttt_computer_value(L.st.computer_piece)
    IN
    IF At(L.st.config, c) # -1 THEN L
    ELSE
      LET w == ttt_check_win(L.st, computer_value, c) IN
      IF w.won
      THEN [L EXCEPT !.st = [w.st EXCEPT !.config = Put(@, c, computer_value),
                                         !.status = "I win!", !.win = TRUE,
                                         !.computer_score = @ + 1],
                     !.done = TRUE, !.cell = c]
      ELSE ComputerPlaysScore(L, c, [w.st EXCEPT !.config = Put(@, c, computer_value)])

\* the end of computer_plays, its loops having ended in the loop state out:
\* the return of an immediate win, or the move best_move
ComputerPlaysEnd(out) ==
  IF out.done
  THEN [o |-> out.st, cell |-> out.cell, won |-> TRUE, restored |-> out.restored,
        nodes |-> out.nodes, tried |-> out.tried, early |-> TRUE]
  ELSE IF out.best_move # <<>> /\ ~out.st.win
  THEN [o |-> [out.st EXCEPT !.config =
                 Put(@, out.best_move, ttt_computer_value(out.st.computer_piece))],
        cell |-> out.best_move, won |-> FALSE, restored |-> out.restored,
        nodes |-> out.nodes, tried |-> out.tried, early |-> FALSE]
  ELSE [o |-> out.st, cell |-> <<>>, won |-> FALSE, restored |-> out.restored,
        nodes |-> out.nodes, tried |-> out.tried, early |-> FALSE]

\* computer_plays.  The result is [o, cell, won, restored, nodes, tried,
\* early]: cell is the cell it wrote, <<>> when it wrote none, nodes are the
\* calls of look_ahead it made, tried lists the moves it scored with their
\* scores, in the order of the loops, early says it returned from the loops
\* with an immediate win.
computer_plays(o) ==
  ComputerPlaysEnd(
    ComputerPlaysLoop([st |-> o, best_score |-> 0 - TttWindow,
                       best_move |-> <<>>, done |-> FALSE, cell |-> <<>>,
                       restored |-> TRUE, nodes |-> {}, tried |-> <<>>],
                      1, NumCells))

(***************************************************************************)
(* A recorded play of play_game at 'easy', the human first: move k is the  *)
(* human's for odd k and the AI's for even k (its first two by choice()).  *)
(* The late positions of this play are where Atari and console behaviours  *)
(* start.  The same order of moves is a play of the Atari program at Easy, *)
(* where the computer takes a cell that wins at once and otherwise any     *)
(* empty cell: no AI move of the play had such a cell to take.  At the     *)
(* other difficulties the positions are inputs of the move procedures, not *)
(* positions known to be played into; TTT3D starts from its constructor.   *)
(***************************************************************************)
RecordedGame ==
  << <<3, 0, 1>>, <<2, 0, 3>>, <<2, 0, 2>>, <<0, 0, 0>>, <<0, 0, 3>>, <<0, 0, 1>>,
     <<2, 3, 1>>, <<0, 0, 2>>, <<0, 1, 0>>, <<0, 1, 1>>, <<1, 1, 2>>, <<0, 1, 2>>,
     <<1, 2, 1>>, <<0, 1, 3>>, <<0, 3, 0>>, <<0, 2, 0>>, <<2, 3, 2>>, <<0, 2, 1>>,
     <<0, 3, 1>>, <<2, 1, 1>>, <<3, 3, 3>>, <<1, 3, 1>>, <<0, 3, 3>>, <<0, 3, 2>>,
     <<0, 2, 2>>, <<0, 2, 3>>, <<3, 1, 3>>, <<1, 0, 0>>, <<1, 3, 2>>, <<3, 3, 0>>,
     <<2, 1, 0>>, <<1, 0, 1>>, <<3, 3, 1>>, <<1, 0, 2>>, <<1, 0, 3>>, <<1, 3, 0>>,
     <<1, 1, 3>>, <<2, 2, 3>>, <<2, 2, 2>>, <<2, 1, 2>>, <<3, 1, 1>>, <<3, 2, 1>>,
     <<1, 2, 2>>, <<3, 2, 2>>, <<1, 1, 0>>, <<1, 1, 1>>, <<2, 0, 1>>, <<3, 1, 0>>,
     <<2, 2, 1>>, <<1, 2, 0>>, <<2, 3, 3>>, <<1, 2, 3>>, <<3, 2, 3>>, <<1, 3, 3>>,
     <<2, 0, 0>>, <<2, 1, 3>>, <<3, 0, 2>>, <<2, 2, 0>>, <<3, 2, 0>>, <<2, 3, 0>>,
     <<3, 3, 2>>, <<3, 0, 3>> >>

\* the board after the first n moves of the recorded play
Position(n, human_value, computer_value, empty) ==
  [l \in Range(BOARD_SIZE) |-> [r \in Range(BOARD_SIZE) |-> [c \in Range(BOARD_SIZE) |->
     LET k == FirstOf({j \in 1..Len(RecordedGame) : RecordedGame[j] = <<l, r, c>>})
     IN IF k = 0 \/ k > n THEN empty
        ELSE IF k % 2 = 1 THEN human_value ELSE computer_value]]]

\* The first eight moves of a game of the console program at 'difficult' in
\* which the AI moves first: its first three moves are drawn by
\* choice(blanks), its fourth is found by alpha_beta_minimax at depth 4; the
\* human's moves are typed at the prompts.
RecordedOpening ==
  << <<1, 0, 0>>, <<1, 1, 1>>, <<2, 0, 0>>, <<1, 2, 2>>, <<0, 0, 3>>, <<2, 1, 2>>,
     <<0, 0, 0>>, <<2, 2, 1>> >>

\* the board of the console program after the recorded opening
OpeningPosition ==
  [l \in Range(BOARD_SIZE) |-> [r \in Range(BOARD_SIZE) |-> [c \in Range(BOARD_SIZE) |->
     LET k == FirstOf({j \in 1..Len(RecordedOpening) : RecordedOpening[j] = <<l, r, c>>})
     IN IF k = 0 THEN 0 ELSE IF k % 2 = 1 THEN -1 ELSE 1]]]

\* The first nine moves of a game of the console program at 'difficult' in
\* which the human moves first: the AI's first two moves are drawn by
\* choice(blanks), its third and fourth are found by alpha_beta_minimax at
\* depth 4; the human's moves are typed at the prompts.
RecordedFork ==
  << <<0, 0, 0>>, <<3, 1, 2>>, <<0, 0, 3>>, <<2, 3, 1>>, <<0, 3, 0>>, <<0, 0, 1>>,
     <<0, 1, 1>>, <<0, 0, 2>>, <<0, 1, 0>> >>

\* the board of the console program after the moves of RecordedFork
ForkPosition ==
  [l \in Range(BOARD_SIZE) |-> [r \in Range(BOARD_SIZE) |-> [c \in Range(BOARD_SIZE) |->
     LET k == FirstOf({j \in 1..Len(RecordedFork) : RecordedFork[j] = <<l, r, c>>})
     IN IF k = 0 THEN 0 ELSE IF k % 2 = 1 THEN 1 ELSE -1]]]

(***************************************************************************)
(* Bounds.                                                                 *)
(***************************************************************************)
\* a behaviour of the Atari or the console program starts with MaxEmpty or
\* MaxEmpty - 1 empty cells
MaxEmpty == 3
\* callbacks handed to root.after and not yet run
MaxTimers == 1
\* the look-ahead of TTT3D (Medium) is run in the first game, on boards of at
\* most this many pieces
MaxLookAheadPieces == 1
\* the boards TTT3D clears after the first: New Game and the first-move buttons
MaxGames == 1

\* a behaviour of the console program from a late position starts after this
\* many moves of the recorded play
CliStart == 57
\* the cells the model types for player_move and draws for choice(blanks):
\* the cells empty after the first CliStart moves of the recorded play
CliCells ==
  {c \in Cells : \A j \in 1..CliStart : j > Len(RecordedGame) \/ RecordedGame[j] # c}
\* the console game is followed while ai_move plays at random, for the move
\* that follows either recorded opening, and again from the late positions on:
\* in between, a search of depth 4 or 6 is out of reach
Followed(b) ==
  \/ Len(get_blanks(b)) >= RandomThreshold
  \/ b = OpeningPosition
  \/ b = ForkPosition
  \/ Len(get_blanks(b)) <= NumCells - CliStart

\* the cells the model clicks in the Atari program: the cells empty at the
\* start and the last cell played before it
AtariClickCells ==
  {c \in Cells : \A j \in 1..(NumCells - MaxEmpty - 1) :
                   j > Len(RecordedGame) \/ RecordedGame[j] # c}

\* the cells the model clicks in TTT3D
TttClickCells == {<<3, 3, 0>>, <<3, 3, 1>>, <<3, 3, 2>>}
\* the cells the model draws for random.choice(empty_spaces) on the cleared
\* board, of which every cell is empty
TttPickCells == {<<3, 3, 1>>, <<3, 3, 3>>}

Pieces(b) == Cardinality({k \in 1..NumCells : At(b, LoopCells[k]) # -1})

VARIABLES
  prog,            \* which program runs: "atari", "ttt3d" or "cli"
  self,            \* the object: its fields
  timers,          \* callbacks handed to root.after and not yet run
  suspended,       \* calls of computer_turn that are inside root.update()
  difficulty,      \* play_game: difficulty
  current_player,  \* play_game: current_player
  phase,           \* play_game: "loop" in the game loop, "over" after it
  printed,         \* play_game: what print_result printed
  games,           \* TTT3D: the boards cleared since the start
  last             \* the last handler run: what it wrote and what it found

vars == <<prog, self, timers, suspended, difficulty, current_player, phase,
          printed, games, last>>

\* the board of the running program
Board == IF prog = "ttt3d" THEN self.config ELSE self.board
\* the integer the running program stores for an empty cell
Empty == IF prog = "cli" THEN 0 ELSE -1

\* the handlers that clear the board and start a game of TTT3D
NewGameOps == {"", "new_game", "change_first"}
\* who commits the move a handler writes
Mover(op) ==
  IF op \in {"on_iso_click", "human_move", "player_move"} THEN "human" ELSE "computer"

\* who made the n-th move of the recorded play, the human moving first
RecordedMover(n) ==
  IF n <= 0 THEN "" ELSE IF n % 2 = 1 THEN "human" ELSE "computer"

\* the number of pieces on the board of the running program
Played == Occupied(Board, Empty)

\* The record kept of the last handler run: the cell it was about (<<>> for
\* none), whether it wrote it, the cell's value and the program's terminal
\* flag before the write, whether a search ran and whether every search call
\* returned with the board it was entered with, the answer of the win test on
\* the move made, and the win scores before the handler; and, of the game
\* being played, who committed the last move (mover) and who the move before
\* it (previous), "" for nobody.
Note(op, cell, wrote, before, over, searched, restored, won, o) ==
  [op |-> op, cell |-> cell, wrote |-> wrote, before |-> before, over |-> over,
   searched |-> searched, restored |-> restored, won |-> won,
   human_score |-> IF prog = "cli" THEN 0 ELSE o.human_score,
   computer_score |-> IF prog = "cli" THEN 0 ELSE o.computer_score,
   mover |-> IF wrote THEN Mover(op)
             ELSE IF op \in NewGameOps THEN "" ELSE last.mover,
   previous |-> IF op \in NewGameOps THEN ""
                ELSE IF wrote THEN last.mover ELSE last.previous]

AtariInit(n, piece, level) ==
  /\ self = [board |-> Position(n, piece_value(piece), piece_value(OtherPiece(piece)), -1),
             human_first |-> TRUE, human_piece |-> piece,
             computer_piece |-> OtherPiece(piece),
             difficulty |-> level, max_depth |-> IF level = 1 THEN 1 ELSE level + 1,
             human_score |-> 0, computer_score |-> 0, tie_score |-> 0,
             game_over |-> FALSE, winning_cells |-> <<>>, status |-> "Your turn!"]
  /\ timers = n % 2
  /\ difficulty = "" /\ current_player = 0 /\ phase = "mainloop"

\* TTT3D after __init__ (Medium, the human plays X) or, level being 1, after
\* the Easy button and the O button: change_difficulty and change_piece leave
\* an empty board
TttInit(piece, level) ==
  /\ self = [ttt_clear_board(
               [config |-> Filled(-1), human_first |-> TRUE, human_piece |-> piece,
                computer_piece |-> OtherPiece(piece), difficulty |-> level,
                total_looks_ahead |-> level,
                look_ahead_counter |-> 0, human_score |-> 0, computer_score |-> 0,
                win |-> FALSE, final_win |-> <<>>, status |-> ""])
             EXCEPT !.status = "Good luck!"]
  /\ timers = 0
  /\ difficulty = "" /\ current_player = 0 /\ phase = "mainloop"

CliInit(n, name) ==
  /\ self = [board |-> Position(n, 1, -1, 0)]
  /\ timers = 0
  /\ difficulty = name
  /\ current_player = IF n % 2 = 0 THEN 1 ELSE -1
  /\ phase = "loop"

Init ==
  /\ prog \in {"atari", "ttt3d", "cli"}
  /\ \E n \in {NumCells - MaxEmpty, NumCells - MaxEmpty + 1} :
       \/ prog = "atari" /\ \E piece \in {"X", "O"}, level \in 1..3 :
                              AtariInit(n, piece, level)
       \/ prog = "ttt3d" /\ \E piece \in {"X", "O"}, level \in 1..2 :
                              (level = 1 <=> piece = "O") /\ TttInit(piece, level)
       \/ prog = "cli" /\ \E name \in {"easy", "difficult", "insane"} : CliInit(n, name)
  /\ suspended = 0
  /\ printed = ""
  /\ games = 0
  /\ last = [Note("", <<>>, FALSE, Empty, FALSE, FALSE, TRUE, FALSE, self)
               EXCEPT !.mover = RecordedMover(Played),
                      !.previous = RecordedMover(Played - 1)]

(***************************************************************************)
(* AtariTicTacToe3D: the handlers the event loop runs.                     *)
(***************************************************************************)
\* on_iso_click on the cell c (on_cell_click has the same body)
on_iso_click(c) ==
  /\ prog = "atari"
  /\ IF self.game_over \/ is_animating \/ At(self.board, c) # -1
     THEN /\ UNCHANGED <<self, timers>>
          /\ last' = Note("on_iso_click", c, FALSE, At(self.board, c), self.game_over,
                          FALSE, TRUE, FALSE, self)
     ELSE \E m \in {make_move(self, c, TRUE)} :
          /\ timers + m.after <= MaxTimers
          /\ self' = m.o
          /\ timers' = timers + m.after
          /\ last' = Note("on_iso_click", c, TRUE, At(self.board, c), self.game_over,
                          FALSE, TRUE, m.won, self)
  /\ UNCHANGED <<prog, suspended, difficulty, current_player, phase, printed, games>>

\* computer_turn, run by the event loop, up to root.update()
computer_turn ==
  /\ prog = "atari"
  /\ timers > 0
  /\ timers' = timers - 1
  /\ IF self.game_over
     THEN UNCHANGED <<self, suspended>>
     ELSE /\ self' = [self EXCEPT !.status = "Computer is thinking..."]
          /\ suspended' = suspended + 1
  /\ last' = Note("computer_turn", <<>>, FALSE, -1, self.game_over, FALSE, TRUE, FALSE, self)
  /\ UNCHANGED <<prog, difficulty, current_player, phase, printed, games>>

\* the controller state of the Atari program the search is to leave alone
AtariController(o) ==
  <<o.winning_cells, o.game_over, o.human_score, o.computer_score, o.tie_score>>
\* the controller state of TTT3D the search is to leave alone
TttController(o) == <<o.final_win, o.win, o.human_score, o.computer_score>>

\* computer_turn from the return of root.update() to its end; kept says that
\* find_best_move returned with the controller state it was entered with
computer_turn_resume ==
  /\ prog = "atari"
  /\ suspended > 0
  /\ suspended' = suspended - 1
  /\ \E moves \in Shuffles(EmptyCells(self.board)) :
       \E rnd \in IF self.difficulty = 1 THEN RandomScores(Len(moves))
                  ELSE {[k \in 1..Len(moves) |-> 0]} :
         \E f \in {find_best_move(self, moves, rnd)} :
         IF f.move # <<>>
         THEN \E m \in {make_move([f.st EXCEPT !.status = "Your turn!"], f.move, FALSE)} :
              /\ self' = m.o
              /\ timers' = timers + m.after
              /\ last' = Merge(Note("computer_turn_resume", f.move, TRUE,
                                    At(f.st.board, f.move), self.game_over,
                                    f.searched, f.restored, m.won, self),
                               [tried |-> f.tried, early |-> f.early,
                                depths |-> f.depths,
                                kept |-> AtariController(f.st) = AtariController(self)])
         ELSE /\ self' = handle_tie(f.st)
              /\ timers' = timers
              /\ last' = Merge(Note("computer_turn_resume", <<>>, FALSE, -1,
                                    self.game_over, f.searched, f.restored, FALSE, self),
                               [tried |-> f.tried, early |-> f.early,
                                depths |-> f.depths,
                                kept |-> AtariController(f.st) = AtariController(self)])
  /\ UNCHANGED <<prog, difficulty, current_player, phase, printed, games>>

(***************************************************************************)
(* TTT3D: the handlers the event loop runs.                                *)
(***************************************************************************)
human_move(c) ==
  /\ prog = "ttt3d"
  /\ IF At(self.config, c) # -1 \/ self.win
     THEN /\ UNCHANGED <<self, timers>>
          /\ last' = Note("human_move", c, FALSE, At(self.config, c), self.win,
                          FALSE, TRUE, FALSE, self)
     ELSE \E m \in {ttt_human_move(self, c)} :
          /\ timers + m.after <= MaxTimers
          /\ self' = m.o
          /\ timers' = timers + m.after
          /\ last' = Note("human_move", c, TRUE, At(self.config, c), self.win,
                          FALSE, TRUE, m.won, self)
  /\ UNCHANGED <<prog, suspended, difficulty, current_player, phase, printed, games>>

\* the record of a computer_plays: the Note, the calls of look_ahead made, the
\* moves scored and whether an immediate win was returned
LookNote(note, nodes, tried, early) ==
  Merge(note, [nodes |-> nodes, tried |-> tried, early |-> early])

\* computer_plays, run by the event loop
computer_plays_callback ==
  /\ prog = "ttt3d"
  /\ timers > 0
  /\ self.difficulty = 1 \/ (games = 0 /\ Pieces(self.config) <= MaxLookAheadPieces)
  /\ timers' = timers - 1
  /\ \E m \in {computer_plays(self)} :
     /\ self' = m.o
     /\ last' = LookNote(Note("computer_plays", m.cell, m.cell # <<>>,
                              IF m.cell # <<>> THEN At(self.config, m.cell) ELSE -1,
                              self.win, self.difficulty # 1, m.restored, m.won, self),
                         m.nodes, m.tried, m.early)
  /\ UNCHANGED <<prog, suspended, difficulty, current_player, phase, printed, games>>

\* the first move of a game made by computer_plays (Hard), m being what it
\* returned on the cleared board
StartGameSearched(cleared, m) ==
  [o |-> m.o, cell |-> m.cell,
   before |-> IF m.cell # <<>> THEN At(cleared.config, m.cell) ELSE -1]

\* clear_board, the status line and the computer's first move, which end
\* new_game, change_first, change_piece and change_difficulty alike; pick is
\* random.choice(empty_spaces).  The result is [o, cell, before]: the cell
\* the computer wrote (<<>> for none) and the cell's value before the write.
StartGame(o, pick) ==
  LET cleared == [ttt_clear_board(o) EXCEPT !.status = "Good luck!"] IN
  IF ~cleared.human_first
  THEN IF cleared.difficulty = 3
       THEN StartGameSearched(cleared, computer_plays(cleared))
       ELSE [o |-> computer_play_random(cleared, pick), cell |-> pick,
             before |-> At(cleared.config, pick)]
  ELSE [o |-> cleared, cell |-> <<>>, before |-> -1]

\* the New Game button
new_game ==
  /\ prog = "ttt3d"
  /\ games < MaxGames
  /\ games' = games + 1
  /\ \E pick \in TttPickCells :
       \E m \in {StartGame(self, pick)} :
       /\ self' = m.o
       /\ last' = Note("new_game", m.cell, m.cell # <<>>, m.before, FALSE,
                       FALSE, TRUE, FALSE, self)
  /\ UNCHANGED <<prog, timers, suspended, difficulty, current_player, phase, printed>>

\* a first-move radio button; human is self.first_var.get() == 'Human'
change_first(human) ==
  /\ prog = "ttt3d"
  /\ games < MaxGames
  /\ games' = games + 1
  /\ \E pick \in TttPickCells :
       \E m \in {StartGame([self EXCEPT !.human_first = human], pick)} :
       /\ self' = m.o
       /\ last' = Note("change_first", m.cell, m.cell # <<>>, m.before, FALSE,
                       FALSE, TRUE, FALSE, self)
  /\ UNCHANGED <<prog, timers, suspended, difficulty, current_player, phase, printed>>

(***************************************************************************)
(* play_game: one pass of the game loop, with the test that follows it.    *)
(***************************************************************************)
\* while not (game.board_full() or game.game_won()), and print_result after
LoopTest(b) ==
  IF board_full(b) \/ game_won(b)
  THEN phase' = "over" /\ printed' = print_result(b)
  ELSE phase' = "loop" /\ printed' = printed

player_turn ==
  /\ prog = "cli" /\ phase = "loop" /\ current_player = 1
  /\ Followed(self.board)
  /\ \E k \in 1..Len(get_blanks(self.board)) :
       LET cell == get_blanks(self.board)[k]
           b    == player_move(self.board, cell)
       IN /\ cell \in CliCells
          /\ self' = [self EXCEPT !.board = b]
          /\ last' = Note("player_move", cell, TRUE, At(self.board, cell), FALSE,
                          FALSE, TRUE, game_won(b), self)
          /\ LoopTest(b)
  /\ current_player' = current_player * (0 - 1)
  /\ UNCHANGED <<prog, timers, suspended, difficulty, games>>

\* the record of an ai_move: the Note, the number of empty cells it found,
\* the depth it searched at, the largest number of pieces its search had on
\* the board at once and the cells its top call scored
AiNote(note, blanks, depth, peak, tried) ==
  Merge(note, [blanks |-> blanks, depth |-> depth, peak |-> peak, tried |-> tried])

ai_turn ==
  /\ prog = "cli" /\ phase = "loop" /\ current_player # 1
  /\ Followed(self.board)
  /\ LET blanks == get_blanks(self.board) IN
     \E k \in 1..(IF Len(blanks) >= RandomThreshold THEN Len(blanks) ELSE 1) :
       \E m \in {ai_move(self.board, difficulty, blanks[k])} :
       \E cell \in {<<PyIndex(m.pos[1]), PyIndex(m.pos[2]), PyIndex(m.pos[3])>>} :
          /\ blanks[k] \in CliCells \/ Len(blanks) < RandomThreshold
          /\ self' = [self EXCEPT !.board = m.board]
          /\ last' = AiNote(Note("ai_move", cell, TRUE, At(self.board, cell), FALSE,
                                 m.searched, m.restored, game_won(m.board), self),
                            Len(blanks), m.depth, m.peak, m.tried)
          /\ LoopTest(m.board)
  /\ current_player' = current_player * (0 - 1)
  /\ UNCHANGED <<prog, timers, suspended, difficulty, games>>

Next ==
  \/ \E c \in AtariClickCells : on_iso_click(c)
  \/ computer_turn
  \/ computer_turn_resume
  \/ \E c \in TttClickCells : human_move(c)
  \/ computer_plays_callback
  \/ new_game
  \/ \E human \in BOOLEAN : change_first(human)
  \/ player_turn
  \/ ai_turn

Spec == Init /\ [][Next]_vars

(***************************************************************************)
(* The console program from the start of play_game: the cleared board, the *)
(* difficulty and the first player chosen at the prompts, followed while   *)
(* ai_move plays at random; and from a late position of the recorded play, *)
(* followed to the end of the game; and at 'difficult' from either         *)
(* recorded opening, the AI to move.  ai_move takes any difficulty name:   *)
(* play_game passes one of the three names of its menu, "hard" stands for  *)
(* a name outside the table handed in by another caller.                   *)
(***************************************************************************)
CliNames == {"easy", "difficult", "insane", "hard"}

CliGameInit ==
  /\ prog = "cli"
  /\ \E name \in CliNames :
       \/ CliInit(CliStart, name)
       \/ /\ CliInit(0, name)
          /\ name # "hard"
       \/ /\ self = [board |-> Position(0, 1, -1, 0)]
          /\ name # "hard"
          /\ timers = 0 /\ difficulty = name /\ current_player = -1
          /\ phase = "loop"
       \/ /\ self = [board |-> OpeningPosition]
          /\ name = "difficult"
          /\ timers = 0 /\ difficulty = name /\ current_player = -1
          /\ phase = "loop"
       \/ /\ self = [board |-> ForkPosition]
          /\ name = "difficult"
          /\ timers = 0 /\ difficulty = name /\ current_player = -1
          /\ phase = "loop"
  /\ suspended = 0
  /\ printed = ""
  /\ games = 0
  /\ last = Note("", <<>>, FALSE, Empty, FALSE, FALSE, TRUE, FALSE, self)

CliNext ==
  \/ player_turn
  \/ ai_turn

CliSpec == CliGameInit /\ [][CliNext]_vars

(***************************************************************************)
(* The functions on their own: the catalog generation, the index of a      *)
(* cell and the static evaluations, applied to inputs drawn from bounded   *)
(* sets.  prog is "lib"; self is [board, config, human_piece,              *)
(* computer_piece, placed]: board and config are one board, read by the    *)
(* functions of AtariTicTacToe3D and of TTT3D (-1 is empty, 0 and 1 are    *)
(* pieces), placed counts the pieces put on it; last is the last function  *)
(* applied and what it returned.                                           *)
(***************************************************************************)
\* the pieces the model puts on a board
MaxPlaced == 3
\* the edges the catalog is generated for
Edges == {3, 4}
\* the boards the model starts from: the empty board and the board after
\* this many moves of the recorded play
LibStart == 56
\* the cells the model puts pieces on: the row (3, 0, 0..3) and the cells
\* empty after LibStart moves of the recorded play
LibCells ==
  {<<3, 0, 0>>, <<3, 0, 1>>, <<3, 0, 2>>, <<3, 0, 3>>} \cup
  {c \in Cells : \A j \in 1..LibStart : RecordedGame[j] # c}

LibInit ==
  /\ prog = "lib"
  /\ \E b \in {Filled(-1), Position(LibStart, 0, 1, -1)}, piece \in {"X", "O"} :
       self = [board |-> b, config |-> b, human_piece |-> piece,
               computer_piece |-> OtherPiece(piece), placed |-> 0]
  /\ timers = 0 /\ suspended = 0 /\ difficulty = "" /\ current_player = 0
  /\ phase = "lib" /\ printed = "" /\ games = 0
  /\ last = [op |-> ""]

\* a board has been drawn and no function applied to it yet: the model
\* applies one function to a board and then draws the next board
Drawn == last.op \in {"", "place"}

\* self.board[layer][row][col] = v on an empty cell
PlacePiece(c, v) ==
  /\ prog = "lib"
  /\ self.placed < MaxPlaced
  /\ At(self.board, c) = -1
  /\ self' = [self EXCEPT !.board = Put(@, c, v), !.config = Put(@, c, v),
                          !.placed = @ + 1]
  /\ last' = [op |-> "place"]
  /\ UNCHANGED <<prog, timers, suspended, difficulty, current_player, phase, printed, games>>

\* _generate_winning_combinations for the edge n
GenerateCatalog(n) ==
  /\ prog = "lib" /\ Drawn
  /\ last' = [op |-> "generate", edge |-> n, lines |-> GenerateLines(n, Coord)]
  /\ UNCHANGED <<prog, self, timers, suspended, difficulty, current_player, phase,
                 printed, games>>

\* coord_to_index of the cell c, and the cell disable_board decodes from it
IndexCell(c) ==
  /\ prog = "lib" /\ Drawn
  /\ \E idx \in {coord_to_index(c[1], c[2], c[3])} :
       last' = [op |-> "index", cell |-> c, idx |-> idx, back |-> index_to_coord(idx)]
  /\ UNCHANGED <<prog, self, timers, suspended, difficulty, current_player, phase,
                 printed, games>>

\* evaluate_board(computer_value) on the board
Evaluate(computer_value) ==
  /\ prog = "lib" /\ Drawn
  /\ last' = [op |-> "evaluate", computer_value |-> computer_value,
              score |-> evaluate_board(self.board, computer_value)]
  /\ UNCHANGED <<prog, self, timers, suspended, difficulty, current_player, phase,
                 printed, games>>

\* check_available(player_value) on the board
CountAvailable(player_value) ==
  /\ prog = "lib" /\ Drawn
  /\ last' = [op |-> "available", player_value |-> player_value,
              count |-> check_available(self.config, player_value)]
  /\ UNCHANGED <<prog, self, timers, suspended, difficulty, current_player, phase,
                 printed, games>>

\* heuristic() on the board
Heuristic ==
  /\ prog = "lib" /\ Drawn
  /\ last' = [op |-> "heuristic", score |-> heuristic(self)]
  /\ UNCHANGED <<prog, self, timers, suspended, difficulty, current_player, phase,
                 printed, games>>

LibNext ==
  \/ \E c \in LibCells, v \in {0, 1} : PlacePiece(c, v)
  \/ \E computer_value \in {0, 1} : Evaluate(computer_value)
  \/ \E player_value \in {0, 1} : CountAvailable(player_value)
  \/ Heuristic
  \/ \E c \in LibCells : IndexCell(c)
  \/ \E n \in Edges : GenerateCatalog(n)

LibSpec == LibInit /\ [][LibNext]_vars

(***************************************************************************)
(* The bounds of the search claims.                                        *)
(***************************************************************************)
\* the depths at which the two searches are compared: 0 .. MaxSearchDepth
MaxSearchDepth == 3

\* the catalog of lines, as lists of cells
LineCatalog == GenerateLines(BOARD_SIZE, Coord)

\* some line of the catalog lines has all its cells equal to v on the board b
HasLine(lines, b, v) ==
  \E k \in 1..Len(lines) : \A i \in 1..Len(lines[k]) : At(b, lines[k][i]) = v

\* the cells of the board b that hold the value empty
EmptyOn(b, empty) == {c \in Cells : At(b, c) = empty}

\* the handlers in which the computer's move procedure runs
ComputerOps == {"computer_turn_resume", "computer_plays", "ai_move", "new_game",
                "change_first"}

\* C1: every call of the speculative search returns with every board cell
\* equal to its value at entry: the searches of the last handler run (minimax
\* under find_best_move, look_ahead under computer_plays, alpha_beta_minimax
\* under ai_move) all returned with the board they were entered with.
C1_SearchRestoresBoard == last.restored

\* a computer turn of the Atari program in which minimax ran and returned
C1_Witness ==
  /\ prog = "atari" /\ last.op = "computer_turn_resume"
  /\ last.searched /\ last.restored /\ last.wrote

\* C2: for every position, player to move and depth, the score of the
\* alpha-beta search with the full window equals the score of the same search
\* with the pruning test removed, for minimax and for alpha_beta_minimax.
C2_PruningKeepsScore ==
  /\ prog = "atari" =>
       \A d \in 0..MaxSearchDepth, m \in BOOLEAN :
         MinimaxP(TRUE, self, d, 0 - Inf, Inf, m, piece_value(self.computer_piece)).score
           = MinimaxP(FALSE, self, d, 0 - Inf, Inf, m,
                      piece_value(self.computer_piece)).score
  /\ prog = "cli" =>
       \A d \in 0..MaxSearchDepth, p \in {1, -1} :
         AlphaBetaP(TRUE, self.board, d, 0 - Inf, Inf, p).score
           = AlphaBetaP(FALSE, self.board, d, 0 - Inf, Inf, p).score

\* a position of the Atari program on which minimax returns by its pruning
\* test, with the score of the search that has no pruning test
C2_Witness ==
  /\ prog = "atari" /\ suspended > 0
  /\ \E d \in 0..MaxSearchDepth, m \in BOOLEAN :
       /\ MinimaxP(TRUE, self, d, 0 - Inf, Inf, m, piece_value(self.computer_piece)).cut
       /\ MinimaxP(TRUE, self, d, 0 - Inf, Inf, m, piece_value(self.computer_piece)).score
            = MinimaxP(FALSE, self, d, 0 - Inf, Inf, m,
                       piece_value(self.computer_piece)).score

\* C3: the cell the computer writes its piece to was Empty immediately before
\* the write.
C3_ComputerWritesEmptyCell ==
  (last.op \in ComputerOps /\ last.wrote) => last.before = Empty

\* a computer turn of the Atari program that wrote a piece to an empty cell
C3_Witness ==
  /\ prog = "atari" /\ last.op = "computer_turn_resume"
  /\ last.wrote /\ last.before = -1 /\ At(self.board, last.cell) # -1

\* C4: once the game is in a terminal state (game_over, win) no piece is
\* written to the board: a handler that wrote a piece found the terminal flag
\* false.
C4_NoWriteAfterTerminal == last.wrote => ~last.over

\* C5: the integer stored for a human move differs from the integer stored
\* for a computer move, and both differ from the Empty value -1.
C5_DistinctPieceValues ==
  /\ prog = "atari" =>
       /\ piece_value(self.human_piece) # piece_value(self.computer_piece)
       /\ piece_value(self.human_piece) # -1
       /\ piece_value(self.computer_piece) # -1
  /\ prog = "ttt3d" =>
       /\ ttt_human_value(self.human_piece) # ttt_computer_value(self.computer_piece)
       /\ ttt_human_value(self.human_piece) # -1
       /\ ttt_computer_value(self.computer_piece) # -1

\* C6: the win test answers true if and only if some line of the catalog has
\* all four cells equal to the player value on the board tested: for
\* check_win the board with the player value at the move's cell.
C6_WinTestIsLineTest ==
  /\ prog = "atari" =>
       \A c \in AtariClickCells, v \in {0, 1} :
         check_win(self, v, c).won
           <=> HasLine(LineCatalog, Put(self.board, c, v), v)
  /\ prog = "ttt3d" =>
       \A c \in TttClickCells, v \in {0, 1} :
         ttt_check_win(self, v, c).won
           <=> HasLine(LineCatalog, Put(self.config, c, v), v)
  /\ prog = "cli" =>
       \A v \in {1, -1} :
         check_winner(self.board, v)
           <=> HasLine(LineCatalog, self.board, v)

\* a move of the Atari program on which the win test answered true, a line
\* of the catalog being full of the mover's value
C6_Witness ==
  /\ prog = "atari" /\ last.wrote /\ last.won
  /\ HasLine(LineCatalog, self.board, At(self.board, last.cell))

\* the moves find_best_move returns on the object o over the shuffles and the
\* random scores of the model
FindBestMoves(o) ==
  {find_best_move(o, moves, rnd).move :
     moves \in Shuffles(EmptyCells(o.board)),
     rnd \in RandomScores(Len(EmptyCells(o.board)))}

\* exactly one cell c is Empty, no line is complete, and the value v at c
\* completes a line of v
LastCellWins(b, empty, values, c, v) ==
  /\ EmptyOn(b, empty) = {c}
  /\ \A u \in values : ~HasLine(LineCatalog, b, u)
  /\ HasLine(LineCatalog, Put(b, c, v), v)

\* C7: if exactly one cell is Empty, no line is completed and the computer's
\* piece on that cell completes a line, the computer's move procedure chooses
\* that cell, for every difficulty.
C7_TakesLastWinningCell ==
  /\ prog = "atari" =>
       \A c \in EmptyOn(self.board, -1) :
         LastCellWins(self.board, -1, {0, 1}, c, piece_value(self.computer_piece)) =>
           \A level \in 1..3 :
             FindBestMoves([self EXCEPT !.difficulty = level,
                                        !.max_depth = IF level = 1 THEN 1 ELSE level + 1])
               = {c}
  /\ prog = "ttt3d" =>
       \A c \in EmptyOn(self.config, -1) :
         LastCellWins(self.config, -1, {0, 1}, c,
                      ttt_computer_value(self.computer_piece)) =>
           \A level \in 1..3 :
             computer_plays([self EXCEPT !.difficulty = level,
                                         !.total_looks_ahead =
                                            IF level = 3 THEN 4 ELSE level]).cell = c
  /\ prog = "cli" =>
       \A c \in EmptyOn(self.board, 0) :
         LastCellWins(self.board, 0, {1, -1}, c, -1) =>
           \A name \in {"easy", "difficult", "insane"} :
             ai_move(self.board, name, c).pos = c

\* a position of the Atari program in which the computer is to move, one
\* cell is Empty and the computer's piece on it completes a line
C7_Witness ==
  /\ prog = "atari" /\ suspended > 0 /\ ~self.game_over
  /\ \E c \in EmptyOn(self.board, -1) :
       /\ LastCellWins(self.board, -1, {0, 1}, c, piece_value(self.computer_piece))
       /\ FindBestMoves(self) = {c}

\* C8: the computer's move procedure on a board with no Empty cell yields no
\* move and leaves every cell unchanged.
C8_FullBoardNoMove ==
  /\ (prog = "atari" /\ EmptyOn(self.board, -1) = {}) =>
       /\ find_best_move(self, <<>>, <<>>).move = <<>>
       /\ find_best_move(self, <<>>, <<>>).st.board = self.board
  /\ (prog = "ttt3d" /\ EmptyOn(self.config, -1) = {}) =>
       /\ computer_plays(self).cell = <<>>
       /\ computer_plays(self).o.config = self.config
  /\ (prog = "cli" /\ EmptyOn(self.board, 0) = {}) =>
       ai_move(self.board, difficulty, <<0, 0, 0>>).board = self.board

\* C9: the place operation on a cell that is not Empty leaves the cell's
\* value unchanged: set_move with the human's value, make_move for the human,
\* human_move.
C9_OccupiedCellKept ==
  /\ prog = "atari" =>
       \A c \in AtariClickCells :
         At(self.board, c) # -1 =>
           At(make_move(self, c, TRUE).o.board, c) = At(self.board, c)
  /\ prog = "ttt3d" =>
       \A c \in TttClickCells :
         At(self.config, c) # -1 =>
           At(ttt_human_move(self, c).o.config, c) = At(self.config, c)
  /\ prog = "cli" =>
       \A c \in Cells :
         At(self.board, c) # 0 =>
           At(set_move(self.board, c[1], c[2], c[3], 1), c) = At(self.board, c)

\* the last handler wrote a piece and left the board with no Empty cell and
\* no complete line
DrawnByLastMove ==
  /\ last.wrote
  /\ EmptyOn(Board, Empty) = {}
  /\ \A v \in (IF prog = "cli" THEN {1, -1} ELSE {0, 1}) :
       ~HasLine(LineCatalog, Board, v)

\* C10: when a move leaves the board with no Empty cell and no completed
\* line, the controller is in a terminal draw state after handling it: the
\* game is over with no winner and neither win score has changed.
C10_FullBoardIsDraw ==
  DrawnByLastMove =>
    /\ prog = "atari" =>
         /\ self.game_over /\ self.status = "IT'S A TIE!"
         /\ self.human_score = last.human_score
         /\ self.computer_score = last.computer_score
    /\ prog = "ttt3d" =>
         /\ self.win
         /\ self.human_score = last.human_score
         /\ self.computer_score = last.computer_score
    /\ prog = "cli" => phase = "over" /\ printed = "DRAW"

\* a move of the Atari program that filled the board without a line and was
\* handled as a tie
C10_Witness ==
  /\ prog = "atari" /\ DrawnByLastMove
  /\ self.game_over /\ self.tie_score > 0

(***************************************************************************)
(* The line catalog.                                                       *)
(***************************************************************************)
\* the step of a line of cells: its second cell minus its first
Step(line) == <<line[2][1] - line[1][1], line[2][2] - line[1][2], line[2][3] - line[1][3]>>

\* the lines of a catalog of cells whose step is in steps
WithStep(lines, steps) == Cardinality({k \in 1..Len(lines) : Step(lines[k]) \in steps})

\* the catalogs of the three programs have 76 lines, family by family
SizesOfTheThree ==
  /\ Len(winning_combinations) = 76
  /\ Len(get_all_winning_lines) = 76
  /\ Len(ttt_winning_combinations) = 76
  /\ WithStep(get_all_winning_lines, {<<0, 0, 1>>}) = 16
  /\ WithStep(get_all_winning_lines, {<<0, 1, 0>>}) = 16
  /\ WithStep(get_all_winning_lines, {<<0, 1, 1>>, <<0, 1, -1>>}) = 8
  /\ WithStep(get_all_winning_lines, {<<1, 0, 0>>}) = 16
  /\ WithStep(get_all_winning_lines,
              {<<1, 1, 0>>, <<1, -1, 0>>, <<1, 0, 1>>, <<1, 0, -1>>}) = 16
  /\ WithStep(get_all_winning_lines,
              {<<1, 1, 1>>, <<1, 1, -1>>, <<1, -1, 1>>, <<1, -1, -1>>}) = 4

\* C11: the catalog built by the six families has exactly 76 lines for the
\* 4x4x4 board: 16 rows, 16 columns, 8 diagonals in a layer, 16 verticals, 16
\* diagonals in a vertical plane and 4 space diagonals; the same construction
\* for the edge 3 has exactly 49.
C11_CatalogSizes ==
  /\ SizesOfTheThree
  /\ last.op = "generate" =>
       Len(last.lines) = (IF last.edge = 4 THEN 76 ELSE IF last.edge = 3 THEN 49 ELSE -1)

\* the catalog was generated for the edge 3 and has 49 lines
C11_Witness == last.op = "generate" /\ last.edge = 3 /\ Len(last.lines) = 49

\* a line up to the order of its cells: the sorted tuple of the source, as
\* the count of each cell in the line
Canonical(line) ==
  [x \in {line[i] : i \in 1..Len(line)} |-> Cardinality({i \in 1..Len(line) : line[i] = x})]

\* the canonical forms of the lines of a catalog
UniqueCombos(lines) == {Canonical(lines[k]) : k \in 1..Len(lines)}

\* the catalogs of the three programs have no two equal lines
NoDuplicatesInTheThree ==
  /\ Cardinality(UniqueCombos(ttt_winning_combinations)) = Len(ttt_winning_combinations)
  /\ Cardinality(UniqueCombos(winning_combinations)) = Len(winning_combinations)
  /\ Cardinality(UniqueCombos(get_all_winning_lines)) = Len(get_all_winning_lines)

\* C12: no two lines of the generated catalog are equal as sets of cells:
\* the canonical forms of the lines are as many as the lines.
C12_NoDuplicateLines ==
  /\ NoDuplicatesInTheThree
  /\ last.op = "generate" => Cardinality(UniqueCombos(last.lines)) = Len(last.lines)

\* the catalog was generated for the edge 4 and its 76 lines are 76 sets
C12_Witness ==
  last.op = "generate" /\ last.edge = 4 /\ Cardinality(UniqueCombos(last.lines)) = 76

\* every line of the catalog lines has n pairwise distinct elements of inside
WellFormed(lines, n, inside) ==
  \A k \in 1..Len(lines) :
    /\ Len(lines[k]) = n
    /\ Cardinality({lines[k][i] : i \in 1..n}) = n
    /\ \A i \in 1..n : lines[k][i] \in inside

\* the lines of the catalogs of the three programs are well formed
TheThreeWellFormed ==
  /\ WellFormed(ttt_winning_combinations, 4, 0..63)
  /\ WellFormed(winning_combinations, 4, (0..3) \X (0..3) \X (0..3))
  /\ WellFormed(get_all_winning_lines, 4, (0..3) \X (0..3) \X (0..3))

\* C13: every line of the generated catalog consists of exactly 4 pairwise
\* distinct cells, each inside the board: a flat index in 0..63, or layer, row
\* and column each in 0..3.
C13_LinesWellFormed ==
  /\ TheThreeWellFormed
  /\ last.op = "generate" =>
       WellFormed(last.lines, last.edge,
                  Range(last.edge) \X Range(last.edge) \X Range(last.edge))

\* the catalog was generated for the edge 4: lines of 4 cells of the board
C13_Witness ==
  /\ last.op = "generate" /\ last.edge = 4
  /\ \A k \in 1..Len(last.lines) :
       Len(last.lines[k]) = 4 /\ \A i \in 1..4 : last.lines[k][i] \in Cells

(***************************************************************************)
(* The flat index of a cell.                                               *)
(***************************************************************************)
\* coord_to_index is one-to-one from the cells onto 0..63, index_to_coord is
\* its inverse, and the flattening loops reach the cell at its index
IndexOfEveryCell ==
  /\ \A c \in Cells : coord_to_index(c[1], c[2], c[3]) \in 0..63
  /\ \A c, d \in Cells :
       coord_to_index(c[1], c[2], c[3]) = coord_to_index(d[1], d[2], d[3]) => c = d
  /\ \A idx \in 0..63 : \E c \in Cells : coord_to_index(c[1], c[2], c[3]) = idx
  /\ \A c \in Cells : index_to_coord(coord_to_index(c[1], c[2], c[3])) = c
  /\ \A idx \in 0..63 :
       LET c == index_to_coord(idx) IN c \in Cells /\ coord_to_index(c[1], c[2], c[3]) = idx
  /\ \A c \in Cells : LoopCells[coord_to_index(c[1], c[2], c[3]) + 1] = c

\* C14: coord_to_index(layer, row, col) = layer*16 + row*4 + col is a
\* bijection from the cells onto 0..63, the decoding of disable_board is its
\* inverse, and the flattening of check_win and check_available has the cell
\* (layer, row, col) at exactly that index.
C14_IndexIsBijection ==
  /\ IndexOfEveryCell
  /\ last.op = "index" =>
       /\ last.idx = last.cell[1] * 16 + last.cell[2] * 4 + last.cell[3]
       /\ last.back = last.cell
       /\ LoopCells[last.idx + 1] = last.cell
       /\ \A p \in 0..63 :
            GameBoard(self.config, {At(self.config, last.cell)}, p) = 1
              <=> At(self.config, LoopCells[p + 1]) = At(self.config, last.cell)

\* the cell (3, 0, 2) was indexed as 50 and decoded back
C14_Witness ==
  last.op = "index" /\ last.cell = <<3, 0, 2>> /\ last.idx = 50 /\ last.back = <<3, 0, 2>>

(***************************************************************************)
(* The static evaluations.                                                 *)
(***************************************************************************)
\* no line of the board b is filled by 0 or filled by 1
NoLineFilled(b) == ~HasLine(LineCatalog, b, 0) /\ ~HasLine(LineCatalog, b, 1)

\* C15: on a board on which no line is fully occupied by one player, the
\* static evaluation returned at a search leaf (evaluate_board, heuristic) is
\* strictly between -1000 and +1000, the win scores of the search.
C15_EvaluationBelowWinScore ==
  (last.op \in {"evaluate", "heuristic"} /\ NoLineFilled(self.board)) =>
    (0 - WinScore < last.score /\ last.score < WinScore)

\* evaluate_board was applied to a board with three pieces of one player on a
\* line, no line filled, and returned a score that is not 0
C15_Witness ==
  /\ last.op = "evaluate" /\ NoLineFilled(self.board) /\ last.score # 0
  /\ \E k \in 1..Len(LineCatalog), v \in {0, 1} :
       Cardinality({i \in 1..BOARD_SIZE : At(self.board, LineCatalog[k][i]) = v}) = 3

\* the lines of the catalog every cell of which holds v or is empty on b
OpenLines(b, v) ==
  {k \in 1..Len(LineCatalog) : \A i \in 1..BOARD_SIZE : At(b, LineCatalog[k][i]) \in {v, -1}}

\* C16: check_available(v) returns the number of catalog lines every cell of
\* which holds v or Empty, and heuristic returns check_available(computer
\* value) minus check_available(human value).
C16_OpenLineCount ==
  /\ last.op = "available" =>
       last.count = Cardinality(OpenLines(self.config, last.player_value))
  /\ last.op = "heuristic" =>
       last.score = check_available(self.config, ttt_computer_value(self.computer_piece))
                    - check_available(self.config, ttt_human_value(self.human_piece))

\* check_available was applied to a board on which a piece of the other
\* value closes some line for the player
C16_Witness ==
  /\ last.op = "available"
  /\ last.count = Cardinality(OpenLines(self.config, last.player_value))
  /\ last.count < Len(LineCatalog)
  /\ self.placed > 0


\* the depths the module docstring and ai_move's docstring give
DocumentedDepth(name) ==
  CASE name = "easy" -> 2
    [] name = "difficult" -> 4
    [] name = "insane" -> 6
    [] OTHER -> 4

\* the statement of C17 as worded: every ai_move searches, at the documented
\* depth or at the number of empty cells when that is smaller
C17_SearchesOnEveryTurn ==
  last.op = "ai_move" =>
    /\ last.searched
    /\ last.depth = Min(DocumentedDepth(difficulty), last.blanks)

\* C17: an ai_move that finds fewer than 60 empty cells chooses its move by
\* alpha-beta search of depth 2 for 'easy', 4 for 'difficult', 6 for 'insane'
\* and 4 for a name outside the table, the depth being the number of empty
\* cells when fewer than that remain; an ai_move that finds 60 or more empty
\* cells places its piece on a cell drawn at random and does not search.
C17_SearchesBelowThreshold ==
  last.op = "ai_move" =>
    IF last.blanks >= RandomThreshold
    THEN ~last.searched /\ last.depth = -1
    ELSE /\ last.searched
         /\ last.depth = Min(DocumentedDepth(difficulty), last.blanks)

\* 'insane' has searched six plies deep with seven cells empty
C17_Witness ==
  /\ last.op = "ai_move"
  /\ difficulty = "insane"
  /\ last.blanks = 7
  /\ last.searched
  /\ last.depth = 6


\* the integers the running program stores for the computer's pieces and for
\* the human's
ComputerValue ==
  IF prog = "cli" THEN -1
  ELSE IF prog = "ttt3d" THEN ttt_computer_value(self.computer_piece)
  ELSE piece_value(self.computer_piece)
HumanValue ==
  IF prog = "cli" THEN 1
  ELSE IF prog = "ttt3d" THEN ttt_human_value(self.human_piece)
  ELSE piece_value(self.human_piece)

\* on the board b no line is complete and some Empty cell completes a line of
\* the value v
WinAvailable(b, empty, v, u) ==
  /\ ~HasLine(LineCatalog, b, v)
  /\ ~HasLine(LineCatalog, b, u)
  /\ \E c \in EmptyOn(b, empty) : HasLine(LineCatalog, Put(b, c, v), v)

\* C18: whenever it is the computer's turn, no line is completed and some
\* Empty cell would complete a line of computer pieces, the cell the computer
\* commits completes a line of computer pieces, for every difficulty: after a
\* handler in which the computer wrote an Empty cell of a board on which a
\* win was available, the board has a line of computer pieces.
C18_TakesAvailableWin ==
  (last.op \in ComputerOps /\ last.wrote /\ last.before = Empty) =>
    (WinAvailable(Put(Board, last.cell, Empty), Empty, ComputerValue, HumanValue)
       => HasLine(LineCatalog, Board, ComputerValue))


\* C19: within one game of AtariTicTacToe3D or TTT3D turns strictly
\* alternate, under every interleaving of click events and scheduled
\* computer-turn callbacks: a handler that commits a move commits it for the
\* player who did not commit the move before it.
C19_TurnsAlternate ==
  (prog \in {"atari", "ttt3d"} /\ last.wrote) => last.mover # last.previous


\* C20: every recursive call of minimax and of alpha_beta_minimax passes a
\* depth one less than its caller's, so a search started with depth d >= 0 on
\* a board with e Empty cells returns and never has more than min(d, e)
\* speculative pieces on the board at once: the largest number of pieces the
\* board holds during the search exceeds the number at its start by at most
\* min(d, e).
C20_SearchDepthBounded ==
  /\ prog = "atari" =>
       \A d \in 0..MaxSearchDepth, m \in BOOLEAN :
         minimax(self, d, 0 - Inf, Inf, m, piece_value(self.computer_piece)).peak
           <= Played + Min(d, NumCells - Played)
  /\ prog = "cli" =>
       \A d \in 0..MaxSearchDepth, p \in {1, -1} :
         alpha_beta_minimax(self.board, d, 0 - Inf, Inf, p).peak
           <= Played + Min(d, NumCells - Played)
  /\ (last.op = "ai_move" /\ last.searched) =>
       last.peak <= (NumCells - last.blanks) + Min(last.depth, last.blanks)

\* an ai_move of 'easy' that found three cells Empty has searched with two
\* speculative pieces on the board at once, and on the board it left the
\* search of depth 1 has one
C20_Witness ==
  /\ prog = "cli" /\ last.op = "ai_move" /\ last.searched
  /\ difficulty = "easy" /\ last.blanks = 3
  /\ last.peak = (NumCells - 3) + 2
  /\ phase = "loop"
  /\ alpha_beta_minimax(self.board, 1, 0 - Inf, Inf, 1).peak = Played + 1


\* C21: look_ahead explores moves by place, evaluate, undo: the recursive
\* call made for a candidate cell runs on the board that has the mover's
\* piece on that cell, so a call k plies below the call made for the
\* top-level candidate finds k more pieces than that call found.  After
\* computer_plays committed a move the board holds as many pieces as the
\* board of each top-level call of look_ahead did.
C21_LookAheadPlacesPieces ==
  (prog = "ttt3d" /\ last.op = "computer_plays" /\ last.wrote) =>
    \A n \in last.nodes : n.pieces = Played + n.ply

\* C22: the remaining lookahead at a node of look_ahead depends only on its
\* ply below the top-level candidate: look_ahead_counter at the entry of a
\* call k plies below is k, so that total_looks_ahead - k plies remain for
\* every sibling, however many nodes were visited before it.
C22_RemainingDepthByPly ==
  (prog = "ttt3d" /\ last.op = "computer_plays") =>
    \A n \in last.nodes : n.counter = n.ply


\* the cell of the first entry of tried, a list of <<cell, score>>, whose
\* score is the best for the mover: the greatest when sign is 1, the least
\* when sign is -1; <<>> for the empty list
FirstBest(tried, sign) ==
  IF tried = <<>> THEN <<>>
  ELSE tried[FirstOf({k \in 1..Len(tried) :
                        \A j \in 1..Len(tried) :
                          sign * tried[j][2] <= sign * tried[k][2]})][1]

\* C23: in the top-level move selection a later candidate replaces the
\* current best only when its score is strictly better for the mover, so
\* among candidates with equal best score the first in iteration order is
\* the move returned: a selection that scored every candidate commits the
\* first of the cells with the best score.
C23_FirstBestIsReturned ==
  /\ (prog = "atari" /\ last.op = "computer_turn_resume" /\ last.wrote /\ ~last.early)
       => last.cell = FirstBest(last.tried, 1)
  /\ (prog = "ttt3d" /\ last.op = "computer_plays" /\ last.wrote /\ ~last.early)
       => last.cell = FirstBest(last.tried, 1)
  /\ (prog = "cli" /\ last.op = "ai_move" /\ last.searched)
       => last.cell = FirstBest(last.tried, -1)


\* the value on_difficulty_change and the constructor give max_depth for a
\* difficulty: 1 for Easy, 3 for Medium, 4 for Hard
ConfiguredDepth(level) == IF level = 1 THEN 1 ELSE IF level = 2 THEN 3 ELSE 4

\* C24: the search depth find_best_move passes to minimax is the configured
\* value max_depth that belongs to the current difficulty, for every
\* difficulty at which minimax is called.
C24_DepthIsMaxDepth ==
  (prog = "atari" /\ last.op = "computer_turn_resume") =>
    /\ self.max_depth = ConfiguredDepth(self.difficulty)
    /\ \A d \in last.depths : d = self.max_depth


\* C25: when at least 60 of the 64 cells are Empty, ai_move runs no search
\* and writes O to exactly one cell that was Empty, every Empty cell being a
\* possible choice, and changes no other cell; with fewer than 60 Empty cells
\* the move is the one returned by alpha_beta_minimax.  On every board on
\* which the AI is to move, and for the ai_move that has just run.
C25_RandomOpeningOrSearch ==
  /\ (prog = "cli" /\ phase = "loop" /\ current_player # 1 /\ Followed(self.board)) =>
       IF NumCells - Played >= 60
       THEN \A pick \in EmptyOn(self.board, 0) :
              /\ ~ai_move(self.board, difficulty, pick).searched
              /\ ai_move(self.board, difficulty, pick).board = Put(self.board, pick, -1)
       ELSE LET m == ai_move(self.board, difficulty, <<0, 0, 0>>)
                found == alpha_beta_minimax(self.board,
                                            Min(difficulty_depths(difficulty),
                                                NumCells - Played),
                                            0 - Inf, Inf, -1)
            IN /\ m.searched
               /\ m.pos = found.pos
               /\ m.board = set_move(self.board, found.pos[1], found.pos[2],
                                     found.pos[3], -1)
  /\ (prog = "cli" /\ last.op = "ai_move") =>
       /\ last.searched <=> last.blanks < 60
       /\ last.blanks >= 60 =>
            /\ last.wrote /\ last.before = 0 /\ At(self.board, last.cell) = -1
            /\ Played = NumCells - last.blanks + 1

\* the AI has made its random move on a board with exactly 60 cells Empty
C25_Witness ==
  /\ prog = "cli" /\ last.op = "ai_move"
  /\ last.blanks = 60 /\ ~last.searched /\ last.wrote
  /\ Played = 5


\* C26: after a new game is started with human-first selected, every cell
\* is Empty and stays Empty until the human's first move: no computer-turn
\* callback scheduled during the previous game places a piece on the new
\* board.  With human-first selected, a computer move is not the first move
\* committed on a board since it was cleared.
C26_NoStaleComputerMove ==
  /\ (prog \in {"atari", "ttt3d"} /\ last.wrote /\ last.mover = "computer"
        /\ self.human_first) => last.previous # ""
  /\ (prog = "ttt3d" /\ last.op \in {"new_game", "change_first"} /\ self.human_first)
       => self.config = Filled(-1)


\* C27: in AtariTicTacToe3D, between two consecutive board clears exactly one
\* of human_score, computer_score and tie_score is incremented, by exactly 1,
\* if the game reached game_over, and none otherwise, under every
\* interleaving of click and computer-turn callbacks.  A behaviour of the
\* Atari program is one game, begun with the three scores 0.
C27_GameCountedOnce ==
  prog = "atari" =>
    self.human_score + self.computer_score + self.tie_score
      = IF self.game_over THEN 1 ELSE 0


\* the Empty cells of the board b that complete a line of the value v
CompletingCells(b, empty, v) ==
  {c \in EmptyOn(b, empty) : HasLine(LineCatalog, Put(b, c, v), v)}

\* on the board b no line is complete, the computer has no cell that wins at
\* once and the human has exactly one
SingleThreat(b) ==
  /\ ~HasLine(LineCatalog, b, ComputerValue)
  /\ ~HasLine(LineCatalog, b, HumanValue)
  /\ CompletingCells(b, Empty, ComputerValue) = {}
  /\ Cardinality(CompletingCells(b, Empty, HumanValue)) = 1

\* C28: if on the computer's turn the computer has no immediately winning
\* cell and the human has exactly one cell T that would complete a human
\* line, then with a search depth of at least 2 (Atari Medium and Hard, the
\* console program at every difficulty once fewer than 60 cells are Empty)
\* the move the computer commits is T.
C28_BlocksSingleThreat ==
  ( /\ \/ prog = "atari" /\ last.op = "computer_turn_resume"
            /\ self.difficulty >= 2 /\ ~last.over
       \/ prog = "cli" /\ last.op = "ai_move" /\ last.searched /\ last.depth >= 2
    /\ last.wrote /\ last.before = Empty
    /\ SingleThreat(Put(Board, last.cell, Empty)) )
  => last.cell \in CompletingCells(Put(Board, last.cell, Empty), Empty, HumanValue)



\* C29: speculative search changes no controller state.  After
\* find_best_move returns, winning_cells, game_over and the three scores equal
\* their values at entry, and after look_ahead returns, final_win, win and
\* the scores equal their values at entry; in particular winning_cells and
\* final_win are empty whenever no game has been won since the last board
\* clear.
C29_SearchKeepsControllerState ==
  /\ (prog = "atari" /\ last.op = "computer_turn_resume") => last.kept
  /\ (prog = "atari" /\ self.human_score + self.computer_score = 0) =>
       self.winning_cells = <<>>
  /\ (prog = "ttt3d" /\ ~self.win /\ self.difficulty # 1
        /\ Pieces(self.config) <= MaxLookAheadPieces) =>
       \A c \in TttClickCells \cap EmptyOn(self.config, -1) :
         TttController(look_ahead([self EXCEPT !.config =
                                     Put(@, c, ttt_computer_value(self.computer_piece))],
                                  ttt_human_value(self.human_piece),
                                  0 - TttWindow, TttWindow).st)
           = TttController(self)
  /\ (prog = "ttt3d" /\ ~self.win) => self.final_win = <<>>


(***************************************************************************)
(* The catalog against the geometry of the cube.                           *)
(***************************************************************************)
\* the directions of a straight line: the steps in {-1, 0, 1}^3 other than
\* (0, 0, 0)
Directions == ({-1, 0, 1} \X {-1, 0, 1} \X {-1, 0, 1}) \ {<<0, 0, 0>>}

\* the cells p + i*d for i = 0 .. n - 1
Ray(p, d, n) ==
  {<<p[1] + i * d[1], p[2] + i * d[2], p[3] + i * d[3]>> : i \in 0..(n - 1)}

\* the cube of edge n
Cube(n) == Range(n) \X Range(n) \X Range(n)

\* all straight n-cell lines of the cube of edge n, as sets of cells
StraightLines(n) ==
  {Ray(x[1], x[2], n) :
     x \in {y \in Cube(n) \X Directions :
              \A i \in {0, n - 1}, j \in 1..3 : y[1][j] + i * y[2][j] \in Range(n)}}

\* the lines of a catalog of cells, as sets of cells
CellSets(lines) == {{lines[k][i] : i \in 1..Len(lines[k])} : k \in 1..Len(lines)}

\* the lines of a catalog of flat indices, as sets of the cells disable_board
\* decodes from them
DecodedSets(lines) ==
  {{index_to_coord(lines[k][i]) : i \in 1..Len(lines[k])} : k \in 1..Len(lines)}

\* the catalog of cells lines maps onto the catalog of indices flat, line by
\* line and cell by cell, under layer * 16 + row * 4 + col
MapsOnto(lines, flat) ==
  /\ Len(lines) = Len(flat)
  /\ \A k \in 1..Len(lines) :
       flat[k] = [i \in 1..Len(lines[k]) |->
                    lines[k][i][1] * 16 + lines[k][i][2] * 4 + lines[k][i][3]]

\* C30: the generated catalog is complete and geometrically exact: its set
\* of lines, as sets of cells, is the set of all straight 4-cell lines of the
\* 4x4x4 cube, that is of all sets {p + i*d : i = 0..3} inside the cube with
\* d in {-1, 0, 1}^3 other than (0, 0, 0); and the catalogs of coordinate
\* tuples of AtariTicTacToe3D and TicTacToe3D map under
\* layer*16 + row*4 + col onto the index catalog of TTT3D line by line.
\* Whenever a catalog has been generated, for its own edge and for the three
\* catalogs of the programs.
C30_CatalogIsAllStraightLines ==
  last.op = "generate" =>
    /\ CellSets(last.lines) = StraightLines(last.edge)
    /\ CellSets(winning_combinations) = StraightLines(BOARD_SIZE)
    /\ CellSets(get_all_winning_lines) = StraightLines(BOARD_SIZE)
    /\ DecodedSets(ttt_winning_combinations) = StraightLines(BOARD_SIZE)
    /\ MapsOnto(winning_combinations, ttt_winning_combinations)
    /\ MapsOnto(get_all_winning_lines, ttt_winning_combinations)

\* the catalog was generated for the edge 4 and holds the space diagonal from
\* (0, 3, 3) to (3, 0, 0) among the 76 straight lines of the cube
C30_Witness ==
  /\ last.op = "generate" /\ last.edge = 4
  /\ {<<0, 3, 3>>, <<1, 2, 2>>, <<2, 1, 1>>, <<3, 0, 0>>} \in CellSets(last.lines)
  /\ Cardinality(StraightLines(4)) = 76

=============================================================================
